---- MODULE Spec2Model ----
(***************************************************************************)
(* Model of the VR session routes (src/server.js, the vrSessions router)   *)
(* and of the VRSession document model (src/unnamed/part_001).             *)
(*                                                                         *)
(* A request handler is an async function: it runs without preemption      *)
(* between two awaits, and every await is a call into the store.  Each     *)
(* handler is therefore cut at its store calls:                            *)
(*   Begin*   request arrives, findOne returns, the synchronous checks and *)
(*            the edits of the in-memory document run  (pc -> "save")      *)
(*   SaveStep the document's save() reaches the store   (pc -> "user")     *)
(*   UserStep the User collection update reaches the store, the response   *)
(*            is sent                                    (pc -> "idle")    *)
(* Spec runs every handler to completion in one step (requests one at a    *)
(* time); SpecConc lets the handlers interleave at those cuts.             *)
(* The store applies save() the way Mongoose sends it: only the modified   *)
(* paths are written; an array push() is sent as $push, an assigned array  *)
(* as $set guarded by the version key __v, a scalar as a plain $set.       *)
(*                                                                         *)
(* The realtime relay (src/server.js, io.on('connection')) keeps its state *)
(* in three in-memory maps: activeUsers, vrSessions and chatRooms.  One    *)
(* socket event is handled without an await, so every relay handler is one *)
(* step; `emitted` holds what that handler sent, each message with the set *)
(* of connections it is delivered to.  SpecPresence, SpecRelay,            *)
(* SpecObjects, SpecChatLog and SpecRelayChat run the relay handlers.      *)
(*                                                                         *)
(* The chat routes (src/unnamed/part_002) work on the ChatMessage          *)
(* collection; SpecChat runs them over a clock that is observed around the *)
(* 15-minute edit window.  A message record holds the fields of the        *)
(* schema; updatedAt and __v, which the store maintains by itself, are     *)
(* left out.                                                               *)
(*                                                                         *)
(* The list and fetch routes of the session router write nothing and are   *)
(* the operators listHandler and fetchHandler.  SpecPair runs the session  *)
(* routes over two sessions.  The register and profile routes              *)
(* (src/routes/auth.js) work on the usernames and emails of the User       *)
(* collection, which has a unique index on each; SpecAuth runs them.       *)
(***************************************************************************)
EXTENDS Integers, Sequences, FiniteSets, TLC

\* ---------------------------------------------------------------- bounds
Users == {"A", "B", "C"}
\* the users who create sessions: the routes treat all user ids alike
Hosts == {"A"}
SessionIds == {"s1"}
Codes == {"K1", "K2"}
Slots == {1, 2}
MaxReqs == 4
MaxConcReqs == 3
MaxCap == 3
MaxTicks == 1
TickMs == 1500

\* ------------------------------------------------------ program constants
MinUsers == 2
MaxUsersLimit == 100
MsPerSecond == 1000
ChatLogLimit == 100

\* capacities a request may ask for, and one below the validator's minimum
Caps == MinUsers..MaxCap

NoCode == "undefined"
NoDate == 0 - 1
Null == "null"

VARIABLES sessions, users, clock, reqs, nreq

\* the relay's process-local state (src/server.js, io.on('connection'))
VARIABLES sockets, activeUsers, vrSessions, chatRooms, emitted, nev

\* the ChatMessage collection (src/models/ChatMessage.js) and the users'
\* stats.messagesSent counters
VARIABLES chatMessages, messagesSent

\* the username and email of the User documents (src/unnamed/part_003)
VARIABLES accounts

sessVars == <<sessions, users, clock, reqs, nreq>>
relayVars == <<sockets, activeUsers, vrSessions, chatRooms, emitted, nev>>
chatVars == <<chatMessages, messagesSent>>
authVars == <<accounts>>
vars == <<sessions, users, clock, reqs, nreq,
          sockets, activeUsers, vrSessions, chatRooms, emitted, nev,
          chatMessages, messagesSent, accounts>>

\* ------------------------------------------------------------- helpers
SeqToSet(q) == {q[i] : i \in 1..Len(q)}

Restrict(f, D) == [x \in D |-> f[x]]

RECURSIVE Without(_, _)
\* Array.prototype.filter(x => x !== u)
Without(q, u) ==
  IF q = <<>> THEN <<>>
  ELSE IF Head(q) = u THEN Without(Tail(q), u)
  ELSE <<Head(q)>> \o Without(Tail(q), u)

Idle == [pc |-> "idle"]

\* what the synchronous part of a handler ends in: the response
\* res.status(status).json({ error }), or a document (as read, and as
\* edited) on its way to save()
Rejected(status, error) == [go |-> FALSE, status |-> status, error |-> error]
Proceed(orig, doc) == [go |-> TRUE, orig |-> orig, doc |-> doc]
Request(op, u, s, out) ==
  [pc |-> "save", op |-> op, user |-> u, sid |-> s, orig |-> out.orig, doc |-> out.doc]

InFlight(r) == reqs[r].pc # "idle"
NoneInFlight == \A r \in Slots : ~InFlight(r)
\* requests are handed the lowest free slot (slots are interchangeable)
FreeSlot(r) == ~InFlight(r) /\ \A q \in Slots : q < r => InFlight(q)

\* VRSession.findOne({ sessionId, isActive: true })
FindActive(s) == s \in DOMAIN sessions /\ sessions[s].isActive
\* the host filter dropped from the query
FindActiveHost_AnyUser(s, u) == FindActive(s)

\* VRSession.findOne({ sessionId, isActive: true, host })
FindActiveHost(s, u) == FindActive(s) /\ sessions[s].host = u

\* the unique sparse index on inviteCode: another document holds this code
CodeTaken(s, code) ==
  /\ code # NoCode
  /\ \E t \in DOMAIN sessions : t # s /\ sessions[t].inviteCode = code

\* ids handed out by uuidv4(): never one that is stored or already drawn
FreshIds(ids) ==
  {s \in ids :
     /\ s \notin DOMAIN sessions
     /\ \A r \in Slots : InFlight(r) => reqs[r].sid # s}

\* ----------------------------------------------------- VRSession methods
\* the capacity test dropped
canUserJoin_NoCapacity(d, u) ==
  /\ u \notin d.bannedUsers
  /\ ~(d.requireInvite /\ u \notin d.invitedUsers)

\* the ban test dropped
canUserJoin_NoBan(d, u) ==
  /\ ~(Len(d.currentUsers) >= d.maxUsers)
  /\ ~(d.requireInvite /\ u \notin d.invitedUsers)

\* the capacity test off by one ( > for >= )
canUserJoin_OffByOne(d, u) ==
  /\ u \notin d.bannedUsers
  /\ ~(Len(d.currentUsers) > d.maxUsers)
  /\ ~(d.requireInvite /\ u \notin d.invitedUsers)

\* the invited-list test dropped
canUserJoin_NoInvite(d, u) ==
  /\ u \notin d.bannedUsers
  /\ ~(Len(d.currentUsers) >= d.maxUsers)

canUserJoin(d, u) ==
  /\ u \notin d.bannedUsers
  /\ ~(Len(d.currentUsers) >= d.maxUsers)
  /\ ~(d.requireInvite /\ u \notin d.invitedUsers)

\* ------------------------------------------------------------- create
\* new VRSession({...}) followed by generateInviteCode() when asked for
newSession(u, maxUsers, isPrivate, requireInvite, code, now) ==
  [host |-> u, name |-> "lobby", description |-> "",
   maxUsers |-> maxUsers,
   isPrivate |-> isPrivate, requireInvite |-> requireInvite,
   inviteCode |-> IF requireInvite \/ isPrivate THEN code ELSE NoCode,
   currentUsers |-> <<u>>, invitedUsers |-> {}, bannedUsers |-> {},
   isActive |-> TRUE, createdAt |-> now, endedAt |-> NoDate, duration |-> NoDate,
   v |-> 0]

\* body('maxUsers').optional().isInt({ min: 2, max: 100 })
ValidMaxUsers(m) == m >= MinUsers /\ m <= MaxUsersLimit

createHandler(u, maxUsers, isPrivate, requireInvite, code) ==
  IF ~ValidMaxUsers(maxUsers)
  THEN Rejected(400, "validation")
  ELSE Proceed(newSession(u, maxUsers, isPrivate, requireInvite, code, clock),
               newSession(u, maxUsers, isPrivate, requireInvite, code, clock))

\* --------------------------------------------------------------- join
JoinOutcome(d, u, code) ==
  IF ~canUserJoin(d, u) THEN "Cannot join this session"
  ELSE IF d.requireInvite /\ d.inviteCode # code THEN "Invalid invite code"
  ELSE IF \E i \in 1..Len(d.currentUsers) : d.currentUsers[i] = u
       THEN "User already in session"
  ELSE "ok"

JoinStatus(outcome) == IF outcome = "User already in session" THEN 400 ELSE 403

joinHandler(u, s, code) ==
  IF ~FindActive(s)
  THEN Rejected(404, "VR session not found")
  ELSE LET d == sessions[s]
           o == JoinOutcome(d, u, code)
       IN IF o # "ok"
          THEN Rejected(JoinStatus(o), o)
          ELSE Proceed(d, [d EXCEPT !.currentUsers = Append(@, u)])

\* -------------------------------------------------------------- leave
Deactivate(d, now) ==
  [d EXCEPT !.isActive = FALSE,
            !.endedAt = now,
            !.duration = (now - d.createdAt) \div MsPerSecond]

\* the empty-session branch dropped
leaveEdit_NoDeactivate(d, u, now) == [d EXCEPT !.currentUsers = Without(d.currentUsers, u)]

leaveEdit(d, u, now) ==
  LET rest == Without(d.currentUsers, u)
      d1 == [d EXCEPT !.currentUsers = rest]
  IN IF Len(rest) = 0 THEN Deactivate(d1, now) ELSE d1

leaveHandler(u, s) ==
  IF ~FindActive(s)
  THEN Rejected(404, "VR session not found")
  ELSE Proceed(sessions[s], leaveEdit(sessions[s], u, clock))

\* ------------------------------------------------------------- update
UpdateFields == {"name", "description", "maxUsers", "isPrivate", "requireInvite"}

FullUpdates ==
  [name : {"arena"}, description : {"demo"}, maxUsers : Caps \cup {MinUsers - 1},
   isPrivate : BOOLEAN, requireInvite : BOOLEAN]

\* request bodies: one field, both settings, or every field
UpdateInputs ==
  {Restrict(f, F) : f \in FullUpdates,
                    F \in {{"name"}, {"description"}, {"maxUsers"}, {"isPrivate"},
                           {"requireInvite"}, {"isPrivate", "requireInvite"}, UpdateFields}}

Supplied(upd, field, old) == IF field \in DOMAIN upd THEN upd[field] ELSE old

\* allowedUpdates.forEach(...): whitelisted assignment, settings shallow-merged
updateEdit(d, upd) ==
  [d EXCEPT !.name = Supplied(upd, "name", @),
            !.description = Supplied(upd, "description", @),
            !.maxUsers = Supplied(upd, "maxUsers", @),
            !.isPrivate = Supplied(upd, "isPrivate", @),
            !.requireInvite = Supplied(upd, "requireInvite", @)]

updateHandler(u, s, upd) ==
  IF "maxUsers" \in DOMAIN upd /\ ~ValidMaxUsers(upd["maxUsers"])
  THEN Rejected(400, "validation")
  ELSE IF ~FindActiveHost(s, u)
  THEN Rejected(404, "VR session not found or unauthorized")
  ELSE Proceed(sessions[s], updateEdit(sessions[s], upd))

\* ---------------------------------------------------------------- end
endHandler(u, s) ==
  IF ~FindActiveHost(s, u)
  THEN Rejected(404, "VR session not found or unauthorized")
  ELSE Proceed(sessions[s], Deactivate(sessions[s], clock))

\* -------------------------------------------------------- invite-code
inviteCodeHandler(u, s, code) ==
  IF ~FindActiveHost(s, u)
  THEN Rejected(404, "VR session not found or unauthorized")
  ELSE Proceed(sessions[s], [sessions[s] EXCEPT !.inviteCode = code])

\* ------------------------------------------------------ read routes
\* The list and fetch routes write nothing: each is the response it
\* gives over the collection `coll`.  optionalAuth leaves req.user unset
\* for a caller without a valid token.
Anonymous == "anonymous"
Callers == Users \cup {Anonymous}
\* req.query.environment and req.query.isPrivate, absent or a string
EnvironmentFilters == {NoCode, "all", "default", "space"}
PrivacyFilters == {NoCode, "true", "false"}
\* the create requests of the model leave environment to its default
EnvironmentOf(d) == "default"
Responded(status, body) == [go |-> TRUE, status |-> status, body |-> body]

\* the privacy forced on an anonymous caller dropped
PrivacyWanted_AsAsked(caller, isPrivate) ==
  IF isPrivate # NoCode THEN {isPrivate = "true"} ELSE BOOLEAN

\* query['settings.isPrivate']: the values of settings.isPrivate the
\* query lets through
PrivacyWanted(caller, isPrivate) ==
  IF caller = Anonymous THEN {FALSE}
  ELSE IF isPrivate # NoCode THEN {isPrivate = "true"}
  ELSE BOOLEAN

\* const query = { isActive: true, ... }
ListQuery(coll, caller, environment, isPrivate) ==
  {s \in DOMAIN coll :
     /\ coll[s].isActive
     /\ environment \in {NoCode, "all"} \/ EnvironmentOf(coll[s]) = environment
     /\ coll[s].isPrivate \in PrivacyWanted(caller, isPrivate)}

\* .select('-inviteCode')
SelectWithoutCode(d) == [f \in DOMAIN d \ {"inviteCode"} |-> d[f]]

\* router.get('/'): the sessions the query matches, of which a response
\* carries one page
listHandler(coll, caller, environment, isPrivate) ==
  Responded(200, [s \in ListQuery(coll, caller, environment, isPrivate) |->
                    SelectWithoutCode(coll[s])])

IsHost(d, caller) == caller # Anonymous /\ d.host = caller

\* the code left in the response for every caller
HideInviteCode_Never(d, caller) == d

\* session.inviteCode = undefined unless the caller is the host
HideInviteCode(d, caller) ==
  IF ~IsHost(d, caller) THEN [d EXCEPT !.inviteCode = NoCode] ELSE d

\* router.get('/:sessionId')
fetchHandler(coll, caller, s) ==
  IF ~(s \in DOMAIN coll /\ coll[s].isActive)
  THEN Rejected(404, "VR session not found")
  ELSE IF coll[s].isPrivate /\ ~IsHost(coll[s], caller)
  THEN Rejected(403, "Access denied to private session")
  ELSE Responded(200, HideInviteCode(coll[s], caller))

\* the session part of the join route's response
joinResponseBody(s, d) ==
  [sessionId |-> s, name |-> d.name, environment |-> EnvironmentOf(d),
   currentUsers |-> d.currentUsers,
   settings |-> [isPrivate |-> d.isPrivate, requireInvite |-> d.requireInvite]]

\* ------------------------------------------------- document.save()
\* $set of the scalar paths the handler modified (no version check)
applyScalars(stored, orig, doc) ==
  [stored EXCEPT
     !.name = IF doc.name # orig.name THEN doc.name ELSE @,
     !.description = IF doc.description # orig.description THEN doc.description ELSE @,
     !.maxUsers = IF doc.maxUsers # orig.maxUsers THEN doc.maxUsers ELSE @,
     !.isPrivate = IF doc.isPrivate # orig.isPrivate THEN doc.isPrivate ELSE @,
     !.requireInvite = IF doc.requireInvite # orig.requireInvite THEN doc.requireInvite ELSE @,
     !.inviteCode = IF doc.inviteCode # orig.inviteCode THEN doc.inviteCode ELSE @,
     !.isActive = IF doc.isActive # orig.isActive THEN doc.isActive ELSE @,
     !.endedAt = IF doc.endedAt # orig.endedAt THEN doc.endedAt ELSE @,
     !.duration = IF doc.duration # orig.duration THEN doc.duration ELSE @]

\* currentUsers.push(x) is sent as $push (appended to the stored array,
\* __v incremented, no version check)
applyPush(stored, u) ==
  [stored EXCEPT !.currentUsers = Append(@, u), !.v = @ + 1]

\* currentUsers = [...] is sent as $set of the whole array, guarded by
\* { __v: <version read> } and incrementing __v
applyArraySet(stored, doc) ==
  [stored EXCEPT !.currentUsers = doc.currentUsers, !.v = @ + 1]

ArrayAssigned(q) == q.op = "leave" /\ q.doc.currentUsers # q.orig.currentUsers
VersionError(q) == ArrayAssigned(q) /\ sessions[q.sid].v # q.orig.v
DuplicateKey(q) ==
  /\ q.op = "create" \/ q.doc.inviteCode # q.orig.inviteCode
  /\ CodeTaken(q.sid, q.doc.inviteCode)
SaveFails(q) == VersionError(q) \/ DuplicateKey(q)

Saved(q) ==
  IF q.op = "create" THEN q.doc
  ELSE LET s0 == sessions[q.sid]
           s1 == applyScalars(s0, q.orig, q.doc)
       IN IF q.op = "join" THEN applyPush(s1, q.user)
          ELSE IF ArrayAssigned(q) THEN applyArraySet(s1, q.doc)
          ELSE s1

StoreAfter(q) ==
  [t \in DOMAIN sessions \cup {q.sid} |-> IF t = q.sid THEN Saved(q) ELSE sessions[t]]

\* ------------------------------------- User.findByIdAndUpdate / updateMany
HasUserStep(op) == op \in {"create", "join", "leave", "end"}

UsersAfter(q) ==
  IF q.op \in {"create", "join"}
  THEN [users EXCEPT ![q.user].currentVRSession = q.sid]
  ELSE IF q.op = "leave"
  THEN [users EXCEPT ![q.user].currentVRSession = Null]
  ELSE [w \in Users |->
          IF w \in SeqToSet(q.doc.currentUsers)
          THEN [users[w] EXCEPT !.currentVRSession = Null]
          ELSE users[w]]


\* ------------------------------------------- handlers run to completion
Whole(op, u, s, out) ==
  /\ NoneInFlight
  /\ UNCHANGED <<relayVars, chatVars, authVars>>
  /\ UNCHANGED <<clock, reqs>>
  /\ IF ~out.go
     THEN UNCHANGED <<sessions, users, nreq>>
     ELSE LET q == Request(op, u, s, out) IN
          /\ nreq < MaxReqs
          /\ nreq' = nreq + 1
          /\ IF SaveFails(q)
             THEN UNCHANGED <<sessions, users>>
             ELSE /\ sessions' = StoreAfter(q)
                  /\ users' = IF HasUserStep(op) THEN UsersAfter(q) ELSE users

Create(u, s, maxUsers, isPrivate, requireInvite, code) ==
  Whole("create", u, s, createHandler(u, maxUsers, isPrivate, requireInvite, code))
Join(u, s, code) == Whole("join", u, s, joinHandler(u, s, code))
Leave(u, s) == Whole("leave", u, s, leaveHandler(u, s))
Update(u, s, upd) == Whole("update", u, s, updateHandler(u, s, upd))
End(u, s) == Whole("end", u, s, endHandler(u, s))
InviteCode(u, s, code) == Whole("invite-code", u, s, inviteCodeHandler(u, s, code))

\* ------------------------------------- handlers cut at their store calls
Begin(r, op, u, s, out) ==
  /\ FreeSlot(r)
  /\ UNCHANGED <<relayVars, chatVars, authVars>>
  /\ UNCHANGED <<sessions, users, clock>>
  /\ IF ~out.go
     THEN UNCHANGED <<reqs, nreq>>
     ELSE /\ nreq < MaxConcReqs
          /\ nreq' = nreq + 1
          /\ reqs' = [reqs EXCEPT ![r] = Request(op, u, s, out)]

BeginCreate(r, u, s, maxUsers, isPrivate, requireInvite, code) ==
  Begin(r, "create", u, s, createHandler(u, maxUsers, isPrivate, requireInvite, code))
BeginJoin(r, u, s, code) == Begin(r, "join", u, s, joinHandler(u, s, code))
BeginLeave(r, u, s) == Begin(r, "leave", u, s, leaveHandler(u, s))
BeginUpdate(r, u, s, upd) == Begin(r, "update", u, s, updateHandler(u, s, upd))
BeginEnd(r, u, s) == Begin(r, "end", u, s, endHandler(u, s))
BeginInviteCode(r, u, s, code) ==
  Begin(r, "invite-code", u, s, inviteCodeHandler(u, s, code))

SaveStep(r) ==
  LET q == reqs[r] IN
  /\ q.pc = "save"
  /\ UNCHANGED <<users, clock, nreq, relayVars, chatVars, authVars>>
  /\ IF SaveFails(q)
     THEN /\ reqs' = [reqs EXCEPT ![r] = Idle]
          /\ UNCHANGED sessions
     ELSE /\ sessions' = StoreAfter(q)
          /\ reqs' = [reqs EXCEPT ![r] = IF HasUserStep(q.op)
                                         THEN [q EXCEPT !.pc = "user"] ELSE Idle]

UserStep(r) ==
  LET q == reqs[r] IN
  /\ q.pc = "user"
  /\ users' = UsersAfter(q)
  /\ reqs' = [reqs EXCEPT ![r] = Idle]
  /\ UNCHANGED <<sessions, clock, nreq, relayVars, chatVars, authVars>>

\* ------------------------------------------- out-of-band store writes
\* No route of the repository writes bannedUsers or invitedUsers; the
\* lists are filled by direct writes to the store ($addToSet).
BanUser(s, u) ==
  /\ s \in DOMAIN sessions /\ u \notin sessions[s].bannedUsers
  /\ nreq' = nreq + 1
  /\ sessions' = [sessions EXCEPT ![s].bannedUsers = @ \cup {u}]
  /\ UNCHANGED <<users, clock, reqs, relayVars, chatVars, authVars>>

InviteUser(s, u) ==
  /\ s \in DOMAIN sessions /\ u \notin sessions[s].invitedUsers
  /\ nreq' = nreq + 1
  /\ sessions' = [sessions EXCEPT ![s].invitedUsers = @ \cup {u}]
  /\ UNCHANGED <<users, clock, reqs, relayVars, chatVars, authVars>>

\* ------------------------------------------------------------ clock
Tick ==
  /\ clock < MaxTicks * TickMs
  /\ clock' = clock + TickMs
  /\ UNCHANGED <<sessions, users, reqs, nreq, relayVars, chatVars, authVars>>

Init ==
  /\ sessions = <<>>
  /\ users = [u \in Users |-> [currentVRSession |-> Null]]
  /\ clock = 0
  /\ reqs = [r \in Slots |-> Idle]
  /\ nreq = 0
  /\ sockets = <<>>
  /\ activeUsers = <<>>
  /\ vrSessions = <<>>
  /\ chatRooms = <<>>
  /\ emitted = <<>>
  /\ nev = 0
  /\ chatMessages = <<>>
  /\ messagesSent = [u \in Users |-> 0]
  /\ accounts = <<>>

JoinCodes(s) == IF FindActive(s) THEN Codes \cup {NoCode} ELSE {NoCode}
HostCodes(s, u) == IF FindActiveHost(s, u) THEN Codes ELSE {NoCode}
HostUpdates(s, u) == IF FindActiveHost(s, u) THEN UpdateInputs ELSE {<<>>}
CreateCaps == Caps \cup {MinUsers - 1}

\* requests processed to completion one at a time, on the sessions `ids`
OneAtATime(ids) ==
  \/ \E u \in Hosts, s \in FreshIds(ids), m \in CreateCaps, p \in BOOLEAN, q \in BOOLEAN,
        c \in Codes : Create(u, s, m, p, q, c)
  \/ \E u \in Users, s \in ids : \E c \in JoinCodes(s) : Join(u, s, c)
  \/ \E u \in Users, s \in ids : Leave(u, s)
  \/ \E u \in Users, s \in ids : \E upd \in HostUpdates(s, u) : Update(u, s, upd)
  \/ \E u \in Users, s \in ids : End(u, s)
  \/ \E u \in Users, s \in ids : \E c \in HostCodes(s, u) : InviteCode(u, s, c)
  \/ \E u \in Users, s \in ids : nreq < MaxReqs /\ BanUser(s, u)
  \/ \E u \in Users, s \in ids : nreq < MaxReqs /\ InviteUser(s, u)
  \/ Tick

\* requests interleaving at their store calls, on the sessions `ids`
Interleaved(ids) ==
  \/ \E r \in Slots, u \in Hosts, s \in FreshIds(ids), m \in CreateCaps, p \in BOOLEAN,
        q \in BOOLEAN, c \in Codes : BeginCreate(r, u, s, m, p, q, c)
  \/ \E r \in Slots, u \in Users, s \in ids : \E c \in JoinCodes(s) :
        BeginJoin(r, u, s, c)
  \/ \E r \in Slots, u \in Users, s \in ids : BeginLeave(r, u, s)
  \/ \E r \in Slots, u \in Users, s \in ids : \E upd \in HostUpdates(s, u) :
        BeginUpdate(r, u, s, upd)
  \/ \E r \in Slots, u \in Users, s \in ids : BeginEnd(r, u, s)
  \/ \E r \in Slots, u \in Users, s \in ids : \E c \in HostCodes(s, u) :
        BeginInviteCode(r, u, s, c)
  \/ \E r \in Slots : SaveStep(r)
  \/ \E r \in Slots : UserStep(r)
  \/ \E u \in Users, s \in ids : nreq < MaxConcReqs /\ BanUser(s, u)
  \/ \E u \in Users, s \in ids : nreq < MaxConcReqs /\ InviteUser(s, u)
  \/ Tick

Next == OneAtATime(SessionIds)
Spec == Init /\ [][Next]_vars

NextConc == Interleaved(SessionIds)
SpecConc == Init /\ [][NextConc]_vars

\* two sessions side by side: public sessions of the smallest capacity,
\* created, joined, left and ended one request at a time
PairIds == {"s1", "s2"}
NextPair ==
  \/ \E u \in Hosts, s \in FreshIds(PairIds) : Create(u, s, MinUsers, FALSE, FALSE, NoCode)
  \/ \E u \in Users, s \in PairIds : Join(u, s, NoCode)
  \/ \E u \in Users, s \in PairIds : Leave(u, s)
  \/ \E u \in Users, s \in PairIds : End(u, s)
SpecPair == Init /\ [][NextPair]_vars


\* ================================================================ relay
\* The relay (src/server.js, io.on('connection')) keeps three maps in the
\* process: activeUsers keyed by user id, vrSessions keyed by room id and
\* chatRooms keyed by room tag.  Every socket event handler is synchronous
\* and runs to completion, so each is one action.  `sockets` holds what
\* the socket library keeps per connection: the user id the connection
\* authenticated as and the rooms it joined with socket.join(); every
\* connection is also in the room named by its own socket id.  `emitted`
\* is what the last handler sent: one entry per emit, with the
\* connections it reaches.

\* ---------------------------------------------------------------- bounds
SocketIds == {"k1", "k2", "k3"}
RelayUsers == {"A", "B"}
\* room ids are client-supplied strings: two ordinary ones and one that
\* spells a user id
RoomIds == {"R1", "R2", "B"}
MaxEvents == 6
ObjectIds == {"o1", "o2"}
\* the connections and rooms of the runs that exercise shared objects
\* and relay chat
ObjectSockets == {"k1", "k2"}
ObjectRooms == {"R1", "R2"}
\* the id require('uuid').v4() returns when the client sends none
UuidIds == {"uuid1"}
NoId == "undefined"
\* vr_position_update payloads
PoseInputs == {[position |-> "p1", rotation |-> "q1"],
               [position |-> "p2", rotation |-> "q2"]}
\* create_shared_object descriptors (without the id)
Descriptors ==
  {[type |-> "box", position |-> "p1", rotation |-> "q1", scale |-> "s1",
    properties |-> [color |-> "red", material |-> "wood"]],
   [type |-> "sphere", position |-> "p2", rotation |-> "q2", scale |-> "s2",
    properties |-> [color |-> "blue", material |-> "wood"]]}
\* update_shared_object payloads (data.updates): a transform field, a
\* property bag naming only a colour, the object's id
UpdateSets ==
  {[position |-> "p3"],
   [properties |-> [color |-> "green"]],
   [id |-> "o2"]}
ChatTexts == {"hi"}
LogSockets == {"k1"}
LogUsers == {"A"}
MaxChatEvents == 103
\* room tag of a chat message; NoId when the client sends none
ChatTags == {NoId, "R1"}
VoiceEvents == {"voice_offer", "voice_answer", "voice_ice_candidate"}

Connected == DOMAIN sockets
\* the connections an emit to `room` reaches
InRoom(room) == {k \in Connected : room = k \/ room \in sockets[k].rooms}
\* io.emit / io.to(room).emit / socket.to(room).emit / socket.emit
Emit(event, to, data) == [event |-> event, to |-> to, data |-> data]
ioEmit(event, data) == Emit(event, Connected, data)
ioTo(room, event, data) == Emit(event, InRoom(room), data)
socketTo_WithCaller(k, room, event, data) == Emit(event, InRoom(room), data)
socketTo(k, room, event, data) == Emit(event, InRoom(room) \ {k}, data)
socketEmit(k, event, data) == Emit(event, {k}, data)

Range(f) == {f[x] : x \in DOMAIN f}
\* Map.prototype.set / Map.prototype.delete on a map held as a function
MapSet(m, key, val) ==
  [x \in DOMAIN m \cup {key} |-> IF x = key THEN val ELSE m[x]]
MapDelete(m, key) == [x \in DOMAIN m \ {key} |-> m[x]]

Event == nev' = nev + 1
RelayFrame == UNCHANGED <<sessVars, chatVars, authVars>>

\* io.on('connection'): the middleware has set socket.userId
Connect(k, u) ==
  /\ k \notin Connected
  /\ Event /\ RelayFrame
  /\ sockets' = MapSet(sockets, k, [userId |-> u, rooms |-> {}])
  /\ activeUsers' = MapSet(activeUsers, u,
       [socketId |-> k, currentRoom |-> Null, vrPosition |-> Null, vrRotation |-> Null])
  /\ emitted' = <<Emit("users_update", Connected \cup {k}, Range(activeUsers'))>>
  /\ UNCHANGED <<vrSessions, chatRooms>>

\* socket.on('join_vr_session')
JoinVrSession(k, sessionId) ==
  /\ k \in Connected
  /\ Event /\ RelayFrame
  /\ UNCHANGED chatRooms
  /\ LET u == sockets[k].userId IN
     IF u \notin DOMAIN activeUsers
     THEN /\ emitted' = <<>>
          /\ UNCHANGED <<sockets, activeUsers, vrSessions>>
     ELSE LET user == activeUsers[u]
              left == IF user.currentRoom # Null
                      THEN sockets[k].rooms \ {user.currentRoom}
                      ELSE sockets[k].rooms
              had == IF sessionId \in DOMAIN vrSessions
                     THEN vrSessions[sessionId]
                     ELSE [users |-> {}, sharedObjects |-> <<>>]
              session == [had EXCEPT !.users = @ \cup {u}]
          IN /\ sockets' = [sockets EXCEPT ![k].rooms = left \cup {sessionId}]
             /\ activeUsers' = [activeUsers EXCEPT ![u].currentRoom = sessionId]
             /\ vrSessions' = MapSet(vrSessions, sessionId, session)
             /\ emitted' =
                  << Emit("vr_session_joined", {k},
                          [sessionId |-> sessionId, users |-> session.users,
                           sharedObjects |-> session.sharedObjects]),
                     Emit("user_joined_vr",
                          {j \in Connected : sessionId = j \/ sessionId \in sockets'[j].rooms} \ {k},
                          [userId |-> u]) >>

\* socket.on('disconnect'); the socket library drops the connection from
\* all its rooms before the handler's emits go out
Disconnect(k) ==
  /\ k \in Connected
  /\ Event /\ RelayFrame
  /\ UNCHANGED chatRooms
  /\ sockets' = MapDelete(sockets, k)
  /\ LET u == sockets[k].userId
         room == IF u \in DOMAIN activeUsers THEN activeUsers[u].currentRoom ELSE Null
         rest == {j \in Connected \ {k} : room = j \/ room \in sockets[j].rooms}
         roster == Emit("users_update", Connected \ {k}, Range(activeUsers'))
     IN /\ activeUsers' = MapDelete(activeUsers, u)
        /\ IF room # Null /\ room \in DOMAIN vrSessions
           THEN LET members == vrSessions[room].users \ {u} IN
                IF members = {}
                THEN /\ vrSessions' = MapDelete(vrSessions, room)
                     /\ emitted' = <<roster>>
                ELSE /\ vrSessions' = [vrSessions EXCEPT ![room].users = members]
                     /\ emitted' = <<Emit("user_left_vr", rest, [userId |-> u]), roster>>
           ELSE /\ vrSessions' = vrSessions
                /\ emitted' = <<roster>>

\* the caller's roster entry, when the handler's guard finds one with a room
HasRoom(k) ==
  /\ sockets[k].userId \in DOMAIN activeUsers
  /\ activeUsers[sockets[k].userId].currentRoom # Null
CurrentRoom(k) == activeUsers[sockets[k].userId].currentRoom
HasSession(k) == HasRoom(k) /\ CurrentRoom(k) \in DOMAIN vrSessions

\* socket.on('vr_position_update')
VrPositionUpdate(k, data) ==
  /\ k \in Connected
  /\ Event /\ RelayFrame
  /\ UNCHANGED <<sockets, vrSessions, chatRooms>>
  /\ IF HasRoom(k)
     THEN LET u == sockets[k].userId IN
          /\ activeUsers' = [activeUsers EXCEPT ![u].vrPosition = data.position,
                                                ![u].vrRotation = data.rotation]
          /\ emitted' = <<socketTo(k, CurrentRoom(k), "user_position_update",
                            [userId |-> u, position |-> data.position,
                             rotation |-> data.rotation])>>
     ELSE /\ emitted' = <<>>
          /\ UNCHANGED activeUsers

\* the id a create stores the object under: data.id || uuid.v4()
UsedIds == UNION {DOMAIN vrSessions[r].sharedObjects : r \in DOMAIN vrSessions}
FreshUuids == UuidIds \ UsedIds
sharedObject(objectId, data, u) ==
  [id |-> objectId, type |-> data.type, position |-> data.position,
   rotation |-> data.rotation, scale |-> data.scale,
   properties |-> data.properties, createdBy |-> u]

CreateBroadcast_NotCaller(k, room, object) ==
  socketTo(k, room, "shared_object_created", object)
CreateBroadcast(k, room, object) == ioTo(room, "shared_object_created", object)

\* an error event sent back to the caller
Ignored_ErrorReply(k) == <<socketEmit(k, "error", "not found")>>

\* a handler whose if (...) does not hold has no else: nothing is sent
Ignored(k) == <<>>

\* socket.on('create_shared_object'); id is data.id, or NoId with the
\* generated id uuid
CreateSharedObject(k, id, uuid, data) ==
  /\ k \in Connected
  /\ Event /\ RelayFrame
  /\ UNCHANGED <<sockets, activeUsers, chatRooms>>
  /\ IF HasSession(k)
     THEN LET room == CurrentRoom(k)
              objectId == IF id # NoId THEN id ELSE uuid
              object == sharedObject(objectId, data, sockets[k].userId)
          IN /\ vrSessions' = [vrSessions EXCEPT ![room].sharedObjects =
                                 MapSet(@, objectId, object)]
             /\ emitted' = <<CreateBroadcast(k, room, object)>>
     ELSE /\ emitted' = Ignored(k)
          /\ UNCHANGED vrSessions

\* Object.assign(object, updates)
ObjectAssign_Replace(object, updates) == updates
ObjectAssign(object, updates) ==
  [x \in DOMAIN object \cup DOMAIN updates |->
     IF x \in DOMAIN updates THEN updates[x] ELSE object[x]]

\* const object = session.sharedObjects.get(data.id); if (object)
HasObject(k, id) ==
  HasSession(k) /\ id \in DOMAIN vrSessions[CurrentRoom(k)].sharedObjects

\* socket.on('update_shared_object')
UpdateSharedObject(k, id, updates) ==
  /\ k \in Connected
  /\ Event /\ RelayFrame
  /\ UNCHANGED <<sockets, activeUsers, chatRooms>>
  /\ IF HasObject(k, id)
     THEN LET room == CurrentRoom(k) IN
          /\ vrSessions' = [vrSessions EXCEPT ![room].sharedObjects[id] =
                              ObjectAssign(@, updates)]
          /\ emitted' = <<socketTo(k, room, "shared_object_updated",
                            [id |-> id, updates |-> updates])>>
     ELSE /\ emitted' = Ignored(k)
          /\ UNCHANGED vrSessions

\* socket.on('voice_offer' / 'voice_answer' / 'voice_ice_candidate')
VoiceSignal(k, event, targetUserId) ==
  /\ k \in Connected
  /\ Event /\ RelayFrame
  /\ UNCHANGED <<sockets, activeUsers, vrSessions, chatRooms>>
  /\ emitted' = <<socketTo(k, targetUserId, event,
                    [fromUserId |-> sockets[k].userId])>>

\* roomMessages.splice(0, roomMessages.length - 100) when longer than 100
KeepLast_All(q, n) == q
KeepLast(q, n) == IF Len(q) > n THEN SubSeq(q, Len(q) - n + 1, Len(q)) ELSE q

\* the room a chat message is filed under: data.room || 'global'
RoomOf(tag) == IF tag = NoId THEN "global" ELSE tag
LogOf(room) == IF room \in DOMAIN chatRooms THEN chatRooms[room] ELSE <<>>
\* uuid.v4(): an id no earlier message of the room carries
NextMessageId(room) ==
  IF LogOf(room) = <<>> THEN 1 ELSE LogOf(room)[Len(LogOf(room))].id + 1
\* the message object
chatMessage(k, text, tag) ==
  [id |-> NextMessageId(RoomOf(tag)), userId |-> sockets[k].userId,
   message |-> text, room |-> RoomOf(tag)]

\* socket.on('send_chat_message')
SendChatMessage(k, text, tag) ==
  /\ k \in Connected
  /\ Event /\ RelayFrame
  /\ UNCHANGED <<sockets, activeUsers, vrSessions>>
  /\ IF sockets[k].userId \in DOMAIN activeUsers
     THEN LET message == chatMessage(k, text, tag) IN
          /\ chatRooms' = MapSet(chatRooms, message.room,
                            KeepLast(Append(LogOf(message.room), message), ChatLogLimit))
          /\ emitted' = <<IF message.room = "global"
                          THEN ioEmit("chat_message", message)
                          ELSE ioTo(message.room, "chat_message", message)>>
     ELSE /\ emitted' = <<>>
          /\ UNCHANGED chatRooms

\* socket.on('get_chat_history'), room defaulting to 'global'
GetChatHistory(k, tag) ==
  /\ k \in Connected
  /\ Event /\ RelayFrame
  /\ UNCHANGED <<sockets, activeUsers, vrSessions, chatRooms>>
  /\ emitted' = <<socketEmit(k, "chat_history",
                    [room |-> RoomOf(tag), messages |-> LogOf(RoomOf(tag))])>>

\* connect / join / disconnect, with any connection free to authenticate
\* as any user
Membership(socks, rooms, budget) ==
  \/ \E k \in socks, u \in RelayUsers : nev < budget /\ Connect(k, u)
  \/ \E k \in socks, r \in rooms : nev < budget /\ JoinVrSession(k, r)
  \/ \E k \in socks : nev < budget /\ Disconnect(k)

\* connect / join / disconnect with every user holding at most one
\* connection at a time
NextPresence ==
  \/ \E k \in ObjectSockets, u \in RelayUsers :
       /\ nev < MaxEvents
       /\ \A j \in Connected : sockets[j].userId # u
       /\ Connect(k, u)
  \/ \E k \in ObjectSockets, r \in ObjectRooms : nev < MaxEvents /\ JoinVrSession(k, r)
  \/ \E k \in ObjectSockets : nev < MaxEvents /\ Disconnect(k)
SpecPresence == Init /\ [][NextPresence]_vars

\* presence, poses and voice signalling
NextRelay ==
  \/ Membership(SocketIds, RoomIds, MaxEvents)
  \/ \E k \in SocketIds, data \in PoseInputs :
       nev < MaxEvents /\ VrPositionUpdate(k, data)
  \/ \E k \in SocketIds, e \in VoiceEvents, target \in RelayUsers :
       nev < MaxEvents /\ VoiceSignal(k, e, target)
SpecRelay == Init /\ [][NextRelay]_vars

\* presence and relay chat
NextRelayChat ==
  \/ Membership(ObjectSockets, ObjectRooms, MaxEvents)
  \/ \E k \in ObjectSockets, text \in ChatTexts, tag \in ChatTags :
       nev < MaxEvents /\ SendChatMessage(k, text, tag)
  \/ \E k \in ObjectSockets, tag \in ChatTags :
       nev < MaxEvents /\ GetChatHistory(k, tag)
SpecRelayChat == Init /\ [][NextRelayChat]_vars

\* presence and shared objects
NextObjects ==
  \/ Membership(ObjectSockets, ObjectRooms, MaxEvents)
  \/ \E k \in ObjectSockets, id \in ObjectIds, data \in Descriptors :
       nev < MaxEvents /\ CreateSharedObject(k, id, NoId, data)
  \/ \E k \in ObjectSockets, uuid \in FreshUuids, data \in Descriptors :
       nev < MaxEvents /\ CreateSharedObject(k, NoId, uuid, data)
  \/ \E k \in ObjectSockets, id \in ObjectIds, updates \in UpdateSets :
       nev < MaxEvents /\ UpdateSharedObject(k, id, updates)
SpecObjects == Init /\ [][NextObjects]_vars

\* one connection filling the chat logs past their limit
NextChatLog ==
  \/ \E k \in LogSockets, u \in LogUsers : nev < MaxChatEvents /\ Connect(k, u)
  \/ \E k \in LogSockets, text \in ChatTexts, tag \in ChatTags :
       nev < MaxChatEvents /\ SendChatMessage(k, text, tag)
SpecChatLog == Init /\ [][NextChatLog]_vars


\* =========================================================== chat store
\* The chat routes (src/unnamed/part_002) over the ChatMessage collection
\* (src/models/ChatMessage.js).  Each handler reads at most one message
\* and writes it back with one save(), and is run to completion here.
\* The two read-only routes are the operators historyHandler and
\* roomsHandler.  A message record holds the schema's fields that the
\* routes read or write; the stamps the store maintains on its own
\* (updatedAt, __v) are not part of it.

\* ---------------------------------------------------------------- bounds
ChatUsers == {"A", "B"}
\* the user who sends messages; the other one only tries to edit and delete
Authors == {"A"}
ChatRoomTags == {"global", "R1"}
\* request bodies: the text of a new message, the text of an edit and
\* one the validator rejects
SendBodies == {"hi", ""}
ChatBodies == {"yo", ""}
MaxMessages == 2
MaxChatReqs == 4
\* how far past the edit window the clock runs, in ms
MaxLateMs == 1
Pages == {1, 2}
Limits == {1, 2}

\* 15 * 60 * 1000
EditWindowMs == 15 * 60 * 1000
\* the clock advances by a millisecond or by just under the edit window,
\* and is observed in the first milliseconds and around the edit window
ElapseSteps == {1, EditWindowMs - 1}
ClockPoints == (0..MaxLateMs) \cup ((EditWindowMs - 1)..(EditWindowMs + MaxLateMs))

ChatFrame == UNCHANGED <<sessions, users, reqs, relayVars, authVars>>
MessageIds == DOMAIN chatMessages
\* body('message').isLength({ min: 1, max: 1000 })
ValidBody(text) == text # ""

\* the query condition deletedAt: null
NotDeleted_Any(m) == TRUE
NotDeleted(m) == m.deletedAt = NoDate

\* chatMessage.createdAt < new Date(Date.now() - 15 * 60 * 1000)
TooOld_Never(m, now) == FALSE
TooOld(m, now) == m.createdAt < now - EditWindowMs

\* ChatMessage.findOne({ _id, user, deletedAt: null })
FindOwn(id, u) ==
  /\ id \in MessageIds
  /\ chatMessages[id].user = u
  /\ NotDeleted(chatMessages[id])

\* router.post('/send')
sendHandler(u, text, room) ==
  IF ~ValidBody(text) THEN Rejected(400, "validation")
  ELSE Proceed(Null,
         [user |-> u, username |-> u, message |-> text, room |-> room,
          createdAt |-> clock, editedAt |-> NoDate, deletedAt |-> NoDate])

\* router.put('/:messageId')
editHandler(u, id, text) ==
  IF ~ValidBody(text) THEN Rejected(400, "validation")
  ELSE IF ~FindOwn(id, u) THEN Rejected(404, "Message not found or unauthorized")
  ELSE IF TooOld(chatMessages[id], clock) THEN Rejected(400, "Message is too old to edit")
  ELSE Proceed(chatMessages[id],
         [chatMessages[id] EXCEPT !.message = text, !.editedAt = clock])

\* router.delete('/:messageId')
deleteHandler(u, id) ==
  IF ~FindOwn(id, u) THEN Rejected(404, "Message not found or unauthorized")
  ELSE Proceed(chatMessages[id], [chatMessages[id] EXCEPT !.deletedAt = clock])

\* save() of a loaded message writes the paths the handler assigned
SaveMessage(stored, orig, doc) ==
  [f \in DOMAIN stored |-> IF doc[f] # orig[f] THEN doc[f] ELSE stored[f]]

ChatSend(u, text, room) ==
  LET out == sendHandler(u, text, room) IN
  /\ ChatFrame /\ UNCHANGED clock
  /\ IF out.go
     THEN /\ Len(chatMessages) < MaxMessages
          /\ nreq' = nreq + 1
          /\ chatMessages' = Append(chatMessages, out.doc)
          /\ messagesSent' = [messagesSent EXCEPT ![u] = @ + 1]
     ELSE UNCHANGED <<nreq, chatVars>>

ChatEdit(u, id, text) ==
  LET out == editHandler(u, id, text) IN
  /\ ChatFrame /\ UNCHANGED <<clock, messagesSent>>
  /\ IF out.go
     THEN /\ nreq' = nreq + 1
          /\ chatMessages' = [chatMessages EXCEPT ![id] = SaveMessage(@, out.orig, out.doc)]
     ELSE UNCHANGED <<nreq, chatMessages>>

ChatDelete(u, id) ==
  LET out == deleteHandler(u, id) IN
  /\ ChatFrame /\ UNCHANGED <<clock, messagesSent>>
  /\ IF out.go
     THEN /\ nreq' = nreq + 1
          /\ chatMessages' = [chatMessages EXCEPT ![id] = SaveMessage(@, out.orig, out.doc)]
     ELSE UNCHANGED <<nreq, chatMessages>>

Elapse(d) ==
  /\ clock + d \in ClockPoints
  /\ clock' = clock + d
  /\ ChatFrame /\ UNCHANGED <<nreq, chatVars>>

\* ChatMessage.find({ room, deletedAt: null }) over the collection `coll`
Visible(coll, room) ==
  {id \in DOMAIN coll : coll[id].room = room /\ NotDeleted(coll[id])}

\* .sort({ createdAt: -1 }): every order of the ids with createdAt
\* descending; the store is free in how it orders equal stamps
SortedNewestFirst(coll, ids) ==
  {q \in [1..Cardinality(ids) -> ids] :
     /\ \A i, j \in DOMAIN q : i < j =>
          q[i] # q[j] /\ coll[q[i]].createdAt >= coll[q[j]].createdAt}

Least(a, b) == IF a < b THEN a ELSE b
Reverse(q) == [i \in 1..Len(q) |-> q[Len(q) + 1 - i]]

\* router.get('/history/:room'): the responses the route can give
historyHandler(coll, room, page, limit) ==
  LET skip == (page - 1) * limit
      ids == Visible(coll, room)
      totalMessages == Cardinality(ids)
  IN {[messages |-> Reverse(SubSeq(q, skip + 1, Least(skip + limit, Len(q)))),
       totalMessages |-> totalMessages,
       hasMore |-> Least(skip + limit, Len(q)) < totalMessages] :
        q \in SortedNewestFirst(coll, ids)}

\* router.get('/rooms'): one entry per room with a message that is not
\* deleted; $last without a $sort may name any message of the group
roomsHandler(coll) ==
  {[room |-> coll[id].room, messageCount |-> Cardinality(Visible(coll, coll[id].room)),
    lastMessageText |-> coll[id].message] : id \in {i \in DOMAIN coll : NotDeleted(coll[i])}}

NextChat ==
  \/ \E u \in Authors, text \in SendBodies, room \in ChatRoomTags :
       nreq < MaxChatReqs /\ ChatSend(u, text, room)
  \/ \E u \in ChatUsers, id \in 1..MaxMessages, text \in ChatBodies :
       nreq < MaxChatReqs /\ ChatEdit(u, id, text)
  \/ \E u \in ChatUsers, id \in 1..MaxMessages :
       nreq < MaxChatReqs /\ ChatDelete(u, id)
  \/ \E d \in ElapseSteps : Elapse(d)
SpecChat == Init /\ [][NextChat]_vars


\* ============================================================= accounts
\* The register and profile routes (src/routes/auth.js) over the User
\* collection, of which `accounts` holds each document's username and
\* email; a document's _id is its index.  The collection has a unique
\* index on username and one on email (src/unnamed/part_003): a write
\* that would store a value twice fails, and the route's catch answers
\* 500.  Each route is run to completion.

\* ---------------------------------------------------------------- bounds
Usernames == {"ann", "bob", "cat"}
\* email addresses as sent; "A@x" is "a@x" in other case
RawEmails == {"a@x", "A@x", "b@x", "c@x"}
BadUsername == "x"
MaxAccounts == 2
MaxAuthReqs == 4

AuthFrame == UNCHANGED <<sessions, users, clock, reqs, relayVars, chatVars>>
AccountIds == DOMAIN accounts

\* body('username').isLength({ min: 3, max: 30 }).matches(/^[a-zA-Z0-9_]+$/)
ValidUsername(username) == username # BadUsername

\* body('email').isEmail().normalizeEmail(): the address in lower case
NormalizeEmail(email) == IF email = "A@x" THEN "a@x" ELSE email

\* the lowest _id of `ids`: findOne returns the first match in store order
First(ids) == CHOOSE i \in ids : \A j \in ids : i <= j

AlreadyExists(field) == Rejected(400, "User with this " \o field \o " already exists")

\* the unique indexes: another document holds the username or the email
DuplicateAccount(id, doc) ==
  \E j \in AccountIds \ {id} :
    accounts[j].username = doc.username \/ accounts[j].email = doc.email

\* router.post('/register')
registerHandler(username, rawEmail) ==
  IF ~ValidUsername(username) THEN Rejected(400, "validation")
  ELSE LET email == NormalizeEmail(rawEmail)
           found == {j \in AccountIds :
                       accounts[j].email = email \/ accounts[j].username = username}
           doc == [username |-> username, email |-> email]
       IN IF found # {}
          THEN AlreadyExists(IF accounts[First(found)].email = email
                             THEN "email" ELSE "username")
          ELSE IF DuplicateAccount(0, doc)
          THEN Rejected(500, "Internal server error")
          ELSE Proceed(Null, doc)

\* query = { _id: { $ne: req.user._id } } with query.username and
\* query.email added when supplied: a document must match all of them
ProfileMatches(id, updates) ==
  {j \in AccountIds \ {id} :
     /\ "username" \in DOMAIN updates => accounts[j].username = updates.username
     /\ "email" \in DOMAIN updates => accounts[j].email = updates.email}

\* router.put('/profile'); updates holds the fields the body supplies
profileHandler(id, body) ==
  IF "username" \in DOMAIN body /\ ~ValidUsername(body.username)
  THEN Rejected(400, "validation")
  ELSE LET updates == [f \in DOMAIN body |->
                         IF f = "email" THEN NormalizeEmail(body[f]) ELSE body[f]]
           found == ProfileMatches(id, updates)
           doc == [f \in {"username", "email"} |->
                     IF f \in DOMAIN updates THEN updates[f] ELSE accounts[id][f]]
       IN IF DOMAIN updates # {} /\ found # {}
          THEN AlreadyExists(IF accounts[First(found)].username = doc.username
                                  /\ "username" \in DOMAIN updates
                             THEN "username" ELSE "email")
          ELSE IF DuplicateAccount(id, doc)
          THEN Rejected(500, "Internal server error")
          ELSE Proceed(accounts[id], doc)

Register(username, rawEmail) ==
  LET out == registerHandler(username, rawEmail) IN
  /\ AuthFrame
  /\ IF out.go
     THEN /\ Len(accounts) < MaxAccounts
          /\ nreq' = nreq + 1
          /\ accounts' = Append(accounts, out.doc)
     ELSE UNCHANGED <<nreq, accounts>>

UpdateProfile(id, body) ==
  LET out == profileHandler(id, body) IN
  /\ id \in AccountIds
  /\ AuthFrame
  /\ IF out.go
     THEN /\ nreq' = nreq + 1
          /\ accounts' = [accounts EXCEPT ![id] = out.doc]
     ELSE UNCHANGED <<nreq, accounts>>

\* request bodies of the profile route: username, email or both
ProfileInputs ==
  {Restrict(f, F) : f \in [username : Usernames \cup {BadUsername}, email : RawEmails],
                    F \in {{"username"}, {"email"}, {"username", "email"}}}

NextAuth ==
  \/ \E username \in Usernames \cup {BadUsername}, email \in RawEmails :
       nreq < MaxAuthReqs /\ Register(username, email)
  \/ \E id \in 1..MaxAccounts, body \in ProfileInputs :
       nreq < MaxAuthReqs /\ UpdateProfile(id, body)
SpecAuth == Init /\ [][NextAuth]_vars

\* =============================================================== claims
Members(s) == SeqToSet(sessions[s].currentUsers)
Count(s) == Len(sessions[s].currentUsers)
AnyCode == Codes \cup {NoCode}
CannotJoin == Rejected(403, "Cannot join this session")
Unauthorized == Rejected(404, "VR session not found or unauthorized")

\* C1: with requests processed one at a time, every step in which a join
\* appends to a session's member list leaves that list no longer than the
\* session's maxUsers.
C1_JoinWithinCapacity ==
  [][\A s \in DOMAIN sessions :
       Len(sessions'[s].currentUsers) > Count(s)
         => Len(sessions'[s].currentUsers) <= sessions'[s].maxUsers]_vars

\* a join has filled a session up to its capacity
C1_Witness ==
  \E s \in DOMAIN sessions :
    /\ sessions[s].v > 0 /\ Count(s) >= 2
    /\ Count(s) = sessions[s].maxUsers

\* C2: in every state, for a user on a session's bannedUsers the join
\* handler ends in 403 "Cannot join this session" for every invite code,
\* and no join request of that user can change the session store.
C2_BannedNeverJoins ==
  \A s \in DOMAIN sessions : \A u \in sessions[s].bannedUsers : \A c \in AnyCode :
    /\ FindActive(s) => joinHandler(u, s, c) = CannotJoin
    /\ ~ENABLED (Join(u, s, c) /\ sessions' # sessions)

\* a banned non-member faces an active session that has room for it and
\* whose invite code it could present
C2_Witness ==
  \E s \in DOMAIN sessions : \E u \in sessions[s].bannedUsers :
    /\ FindActive(s) /\ u \notin Members(s)
    /\ Count(s) < sessions[s].maxUsers
    /\ sessions[s].requireInvite /\ u \in sessions[s].invitedUsers

\* the response the join handler gives u when the session has room for
\* one more member
WithRoom(d) == [d EXCEPT !.maxUsers = Len(d.currentUsers) + 1]
JoinResponse(d, u, c) ==
  LET o == JoinOutcome(d, u, c) IN
  IF o = "ok" THEN [go |-> TRUE] ELSE Rejected(JoinStatus(o), o)

\* C3 as stated: a join to a full active session is refused, and the
\* refusal differs from the one a banned user, an uninvited user and an
\* already-present member get when the session has room.
C3_CapacityErrorDistinct ==
  \A s \in DOMAIN sessions : \A u \in Users : \A c \in AnyCode :
    FindActive(s) /\ Count(s) = sessions[s].maxUsers =>
      LET d == sessions[s]
          o == joinHandler(u, s, c)
      IN /\ ~o.go
         /\ o # JoinResponse([WithRoom(d) EXCEPT !.bannedUsers = @ \cup {u}], u, c)
         /\ o # JoinResponse([WithRoom(d) EXCEPT !.requireInvite = TRUE,
                                                 !.invitedUsers = @ \ {u}], u, c)
         /\ (u \in Members(s) /\ u \notin d.bannedUsers
               /\ (d.requireInvite => u \in d.invitedUsers /\ c = d.inviteCode)
               => o # JoinResponse(WithRoom(d), u, c))

\* C3 amended: a join to a full active session is refused with 403
\* "Cannot join this session" whoever asks and whatever code is sent, and
\* cannot change the session store; that response is the very one a
\* banned user and an uninvited user get from a session that has room.
C3_FullSessionRejected ==
  \A s \in DOMAIN sessions : \A u \in Users : \A c \in AnyCode :
    FindActive(s) /\ Count(s) = sessions[s].maxUsers =>
      LET d == sessions[s] IN
      /\ joinHandler(u, s, c) = CannotJoin
      /\ ~ENABLED (Join(u, s, c) /\ sessions' # sessions)
      /\ JoinResponse([WithRoom(d) EXCEPT !.bannedUsers = @ \cup {u}], u, c) = CannotJoin
      /\ JoinResponse([WithRoom(d) EXCEPT !.requireInvite = TRUE,
                                          !.invitedUsers = @ \ {u}], u, c) = CannotJoin

\* a session filled by a join, and a non-member who is neither banned nor
\* short of an invitation
C3_Witness ==
  \E s \in DOMAIN sessions : \E u \in Users \ Members(s) :
    /\ FindActive(s) /\ sessions[s].v > 0
    /\ Count(s) = sessions[s].maxUsers
    /\ u \notin sessions[s].bannedUsers
    /\ ~sessions[s].requireInvite

\* C4 as stated: a join to a session marked private or invite-required
\* goes through only if it carries the session's current invite code.
C4_InviteCodeGates ==
  \A s \in DOMAIN sessions : \A u \in Users : \A c \in AnyCode :
    /\ FindActive(s)
    /\ sessions[s].isPrivate \/ sessions[s].requireInvite
    /\ joinHandler(u, s, c).go
    => c = sessions[s].inviteCode

\* who the join handler admits to a session that has room, apart from the
\* ban list and the invite code
AdmittedAlways(d, u) == TRUE
AdmittedIfInvited(d, u) == d.requireInvite => u \in d.invitedUsers

\* the join handler's answers in the scenario's states
C5_Answers(Admitted(_, _)) ==
  \A s \in DOMAIN sessions :
    LET d == sessions[s] IN
    d.isActive /\ d.maxUsers = 2 =>
      /\ d.currentUsers = <<d.host>> =>
           \A u \in Users \ ({d.host} \cup d.bannedUsers) :
             joinHandler(u, s, d.inviteCode).go <=> Admitted(d, u)
      /\ Len(d.currentUsers) = 2 =>
           \A u \in Users : \A c \in AnyCode : ~joinHandler(u, s, c).go

\* the scenario's steps
C5_Steps ==
  /\ \A s \in DOMAIN sessions' \ DOMAIN sessions :
       sessions'[s].currentUsers = <<sessions'[s].host>>
  /\ \A s \in DOMAIN sessions :
       LET d == sessions[s] IN
       d.isActive /\ d.maxUsers = 2 =>
         /\ d.currentUsers = <<d.host>> =>
              \A u \in Users \ ({d.host} \cup d.bannedUsers) :
                Join(u, s, d.inviteCode) /\ joinHandler(u, s, d.inviteCode).go
                  => sessions'[s].currentUsers = <<d.host, u>>
         /\ Len(d.currentUsers) = 2 =>
              \A u \in Users : \A c \in AnyCode : Join(u, s, c) => sessions' = sessions

C5_Scenario(Admitted(_, _)) ==
  C5_Answers(Admitted) /\ C5_Answers(Admitted)' /\ C5_Steps

\* C5 as stated: after create the host is the only member; to a session of
\* capacity 2 holding only its host, the join of any other non-banned user
\* that carries the session's invite code goes through for every
\* isPrivate / requireInvite setting and makes the list <<host, user>>;
\* every join to the then full session is refused.
C5_CreateJoinJoin ==
  [][C5_Scenario(AdmittedAlways)]_vars

\* C5 amended: as C5, but the second user's join goes through exactly when
\* requireInvite is off or the user is on the session's invitedUsers list.
C5_CreateJoinJoinInvited ==
  [][C5_Scenario(AdmittedIfInvited)]_vars

\* an invite-required session of capacity 2 that an invited user joined
\* with the code, so that it is full
C5_Witness ==
  \E s \in DOMAIN sessions :
    LET d == sessions[s] IN
    /\ d.isActive /\ d.maxUsers = 2 /\ d.requireInvite /\ d.inviteCode \in Codes
    /\ Len(d.currentUsers) = 2 /\ d.currentUsers[1] = d.host
    /\ d.currentUsers[2] \in d.invitedUsers
    /\ users[d.currentUsers[2]].currentVRSession = s

\* C6 as stated: with joins interleaving at findOne and save, the save of
\* a join leaves the session with no more members than maxUsers.
C6_ConcurrentJoinsWithinCapacity ==
  [][\A r \in Slots :
       /\ reqs[r].pc = "save" /\ reqs[r].op = "join"
       /\ reqs'[r].pc = "user"
       => Len(sessions'[reqs[r].sid].currentUsers) <= sessions'[reqs[r].sid].maxUsers]_vars

\* C7 as stated: no user id appears twice in a session's member list.
C7_NoDuplicateMembers ==
  \A s \in DOMAIN sessions : Cardinality(Members(s)) = Count(s)

C9_InactiveIsTerminal ==
  [][\A s \in DOMAIN sessions :
       ~sessions[s].isActive =>
         /\ ~sessions'[s].isActive
         /\ sessions'[s].endedAt = sessions[s].endedAt
         /\ sessions'[s].duration = sessions[s].duration
         /\ sessions'[s].currentUsers = sessions[s].currentUsers]_vars

\* C10: in every state, for a user who is not the session's host the
\* update, end and invite-code handlers end in the 404 response for every
\* request body, and no such request can change the session store or any
\* user's currentVRSession.
C10_HostOnly ==
  \A s \in DOMAIN sessions : \A u \in Users \ {sessions[s].host} :
    /\ \A upd \in UpdateInputs :
         /\ ~updateHandler(u, s, upd).go
         /\ ~ENABLED (Update(u, s, upd) /\ <<sessions, users>>' # <<sessions, users>>)
    /\ endHandler(u, s) = Unauthorized
    /\ ~ENABLED (End(u, s) /\ <<sessions, users>>' # <<sessions, users>>)
    /\ \A c \in Codes :
         /\ inviteCodeHandler(u, s, c) = Unauthorized
         /\ ~ENABLED (InviteCode(u, s, c) /\ <<sessions, users>>' # <<sessions, users>>)

\* an active session with a member who is not its host: that member's
\* update, end and invite-code requests are the refused ones
C10_Witness ==
  \E s \in DOMAIN sessions : \E u \in Members(s) :
    /\ FindActive(s) /\ u # sessions[s].host
    /\ users[u].currentVRSession = s
    /\ updateHandler(u, s, [name |-> "arena"]) = Unauthorized
\* ------------------------------------------------------- relay claims
\* the connected users whose current room is r
Occupants(r) == {u \in DOMAIN activeUsers : activeUsers[u].currentRoom = r}
DisconnectStep == \E k \in Connected : k \notin DOMAIN sockets'
\* the step is a join_vr_session(r) by connection k of a registered user
JoinStep(k, r) ==
  /\ k \in Connected /\ nev' # nev
  /\ Len(emitted') = 2 /\ emitted'[1].event = "vr_session_joined"
  /\ emitted'[1].to = {k} /\ emitted'[1].data.sessionId = r

\* C11 as stated: after a disconnect no room stays in the room table
\* unless a connected user has it as its current room, and a join to a
\* room that no connected user has as its room is confirmed with a member
\* list holding only the joiner and with no shared objects.
C11_EmptyRoomRemoved ==
  [][/\ DisconnectStep =>
          \A r \in DOMAIN vrSessions' : Occupants(r)' # {}
     /\ \A k \in SocketIds, r \in RoomIds :
          JoinStep(k, r) /\ Occupants(r) = {} =>
            /\ emitted'[1].data.users = {sockets[k].userId}
            /\ emitted'[1].data.sharedObjects = <<>>]_vars

\* C12 as stated: a join that moves a user from room R1 to another room
\* takes the user out of R1's member set and destroys R1 when that empties
\* it; every member of a room is a connected user whose current room is
\* that room.
C12_JoinLeavesPriorRoom ==
  [][/\ \A u \in DOMAIN activeUsers \cap DOMAIN activeUsers' :
          LET r1 == activeUsers[u].currentRoom IN
          r1 # Null /\ activeUsers'[u].currentRoom \notin {Null, r1} =>
            /\ r1 \in DOMAIN vrSessions' => u \notin vrSessions'[r1].users
            /\ r1 \in DOMAIN vrSessions /\ vrSessions[r1].users \subseteq {u}
                 => r1 \notin DOMAIN vrSessions'
     /\ \A r \in DOMAIN vrSessions' : vrSessions'[r].users \subseteq Occupants(r)']_vars
Objects(r) == vrSessions[r].sharedObjects

\* C13 as stated: in every state no two shared objects of one room carry
\* the same id, so no join confirmation lists two objects with equal id.
C13_ObjectIdsUnique ==
  \A r \in DOMAIN vrSessions : \A i, j \in DOMAIN Objects(r) :
    i # j => Objects(r)[i].id # Objects(r)[j].id

\* C14: a create_shared_object with a client-supplied id, issued by a
\* connection whose current room already holds an object under that id,
\* leaves the room's map with the same keys and under that id the object
\* of this create (its fields, its creator); every create is emitted once,
\* to all connections joined to the room, the caller included.
C14_SecondCreateOverwrites ==
  [][\A k \in Connected, id \in ObjectIds, data \in Descriptors :
       CreateSharedObject(k, id, NoId, data) /\ HasSession(k) =>
         LET room == CurrentRoom(k)
             object == sharedObject(id, data, sockets[k].userId)
         IN /\ id \in DOMAIN Objects(room) =>
                 /\ DOMAIN Objects(room)' = DOMAIN Objects(room)
                 /\ \A o \in DOMAIN Objects(room) \ {id} :
                      Objects(room)'[o] = Objects(room)[o]
            /\ Objects(room)'[id] = object
            /\ Len(emitted') = 1
            /\ emitted'[1].event = "shared_object_created"
            /\ emitted'[1].data = object
            /\ emitted'[1].to = InRoom(room)
            /\ room \in sockets[k].rooms => k \in emitted'[1].to]_vars

\* a created object announced to the two connections joined to its room,
\* one of them the creator's
C14_Witness ==
  /\ Len(emitted) = 1 /\ emitted[1].event = "shared_object_created"
  /\ Cardinality(emitted[1].to) = 2
  /\ \E k \in emitted[1].to : sockets[k].userId = emitted[1].data.createdBy
  /\ \E r \in DOMAIN vrSessions :
       /\ emitted[1].data.id \in DOMAIN Objects(r)
       /\ Objects(r)[emitted[1].data.id] = emitted[1].data
       /\ emitted[1].data.type = "sphere"

\* the step applies update_shared_object(id, updates) to an object of the
\* caller's current room
UpdateApplied(k, id, updates) ==
  /\ k \in Connected /\ HasSession(k)
  /\ id \in DOMAIN Objects(CurrentRoom(k))
  /\ UpdateSharedObject(k, id, updates)

\* C15 as stated: after an update every attribute it names has the
\* supplied value and every other attribute keeps its value, the entries
\* of the property bag that the update does not name included.
C15_PartialEditKeepsRest ==
  [][\A k \in Connected, id \in ObjectIds, updates \in UpdateSets :
       UpdateApplied(k, id, updates) =>
         LET old == Objects(CurrentRoom(k))[id]
             new == Objects(CurrentRoom(k))'[id]
         IN /\ \A x \in DOMAIN old \ {"properties"} :
                 new[x] = IF x \in DOMAIN updates THEN updates[x] ELSE old[x]
            /\ \A p \in DOMAIN old.properties :
                 /\ p \in DOMAIN new.properties
                 /\ new.properties[p] =
                      IF "properties" \in DOMAIN updates /\ p \in DOMAIN updates.properties
                      THEN updates.properties[p] ELSE old.properties[p]]_vars

\* C15 amended: after an update every top-level attribute it names has
\* the supplied value, a supplied property bag replacing the stored bag
\* whole, and every other top-level attribute keeps its value.
C15_ShallowMerge ==
  [][\A k \in Connected, id \in ObjectIds, updates \in UpdateSets :
       UpdateApplied(k, id, updates) =>
         LET old == Objects(CurrentRoom(k))[id]
             new == Objects(CurrentRoom(k))'[id]
         IN /\ DOMAIN new = DOMAIN old \cup DOMAIN updates
            /\ \A x \in DOMAIN new :
                 new[x] = IF x \in DOMAIN updates THEN updates[x] ELSE old[x]]_vars

\* an object whose property bag an update replaced by a bag naming only a
\* colour, its transform and creator as created
C15_Witness ==
  \E r \in DOMAIN vrSessions : \E o \in DOMAIN Objects(r) :
    /\ Objects(r)[o].properties = [color |-> "green"]
    /\ Objects(r)[o].position \in {"p1", "p2"}
    /\ Objects(r)[o].createdBy \in RelayUsers
    /\ Len(emitted) = 1 /\ emitted[1].event = "shared_object_updated"

SocketsOf(u) == {j \in Connected : sockets[j].userId = u}

\* C16 as stated: a voice signalling event naming target user T reaches
\* the connections of T and no other connection.
C16_VoiceToTargetOnly ==
  [][\A k \in Connected, e \in VoiceEvents, target \in RelayUsers :
       VoiceSignal(k, e, target) /\ sockets[k].userId # target =>
         /\ Len(emitted') = 1
         /\ emitted'[1].to = SocketsOf(target)]_vars

\* C17 as stated: a vr_position_update of a connection sets its user's
\* cached pose to the supplied one and is delivered to the other
\* connections joined to the user's current room, never to the sender.
C17_PoseCachedAndRelayed ==
  [][\A k \in Connected, data \in PoseInputs :
       VrPositionUpdate(k, data) =>
         LET u == sockets[k].userId IN
         /\ u \in DOMAIN activeUsers'
         /\ activeUsers'[u].vrPosition = data.position
         /\ activeUsers'[u].vrRotation = data.rotation
         /\ \A e \in 1..Len(emitted') : k \notin emitted'[e].to
         /\ activeUsers'[u].currentRoom # Null =>
              /\ Len(emitted') = 1
              /\ emitted'[1].to = InRoom(activeUsers'[u].currentRoom) \ {k}]_vars

\* C17 amended: a vr_position_update of a connection whose user's roster
\* entry has a current room sets the cached pose to the supplied one and
\* is delivered to the other connections joined to that room, never to the
\* sender; without a current room it changes nothing and emits nothing.
C17_PoseCachedInRoom ==
  [][\A k \in Connected, data \in PoseInputs :
       VrPositionUpdate(k, data) =>
         LET u == sockets[k].userId IN
         IF HasRoom(k)
         THEN /\ activeUsers'[u].vrPosition = data.position
              /\ activeUsers'[u].vrRotation = data.rotation
              /\ activeUsers'[u].currentRoom = CurrentRoom(k)
              /\ Len(emitted') = 1
              /\ emitted'[1].event = "user_position_update"
              /\ emitted'[1].to = InRoom(CurrentRoom(k)) \ {k}
              /\ k \notin emitted'[1].to
         ELSE activeUsers' = activeUsers /\ emitted' = <<>>]_vars

\* a pose update cached for its sender and delivered to the other
\* connection of the room
C17_Witness ==
  /\ Len(emitted) = 1 /\ emitted[1].event = "user_position_update"
  /\ emitted[1].to # {}
  /\ LET u == emitted[1].data.userId IN
     /\ u \in DOMAIN activeUsers
     /\ activeUsers[u].vrPosition = "p2" /\ activeUsers[u].vrRotation = "q2"
     /\ \A j \in emitted[1].to : sockets[j].userId # u

\* C18: every per-room log holds at most 100 messages; a message sent by
\* a registered connection is the last entry of the log of its room tag
\* (of the global room when it has no tag) and leaves the other logs
\* alone; and with n messages filed under a room so far, the log holds
\* the last min(n, 100) of them in the order sent.
C18_LogKeepsLast100 ==
  [][/\ \A k \in Connected, text \in ChatTexts, tag \in ChatTags :
          SendChatMessage(k, text, tag) /\ sockets[k].userId \in DOMAIN activeUsers =>
            LET room == RoomOf(tag)
                n == Len(chatRooms'[room])
            IN /\ chatRooms'[room][n] =
                    [id |-> NextMessageId(room), userId |-> sockets[k].userId,
                     message |-> text, room |-> room]
               /\ \A other \in DOMAIN chatRooms \ {room} :
                    chatRooms'[other] = chatRooms[other]
     /\ \A room \in DOMAIN chatRooms' :
          LET log == chatRooms'[room]
              n == log[Len(log)].id
          IN /\ Len(log) = Least(n, ChatLogLimit)
             /\ \A i \in 1..Len(log) :
                  log[i].id = n - Len(log) + i /\ log[i].room = room]_vars

\* the global log trimmed to its limit while another room's log is short
C18_Witness ==
  /\ DOMAIN chatRooms = {"global", "R1"}
  /\ Len(chatRooms["global"]) = ChatLogLimit
  /\ chatRooms["global"][1].id = 2
  /\ Len(chatRooms["R1"]) = 1

SoftDeleted(coll) == {id \in DOMAIN coll : coll[id].deletedAt # NoDate}
Live(coll, room) ==
  {id \in DOMAIN coll : coll[id].room = room /\ coll[id].deletedAt = NoDate}

\* no response of the history route or of the rooms route shows or
\* counts a soft-deleted message of the collection `coll`
HiddenFromReads(coll) ==
  /\ \A room \in ChatRoomTags, page \in Pages, limit \in Limits :
       \A resp \in historyHandler(coll, room, page, limit) :
         /\ Range(resp.messages) \cap SoftDeleted(coll) = {}
         /\ resp.totalMessages = Cardinality(Live(coll, room))
  /\ \A entry \in roomsHandler(coll) :
       /\ Live(coll, entry.room) # {}
       /\ entry.messageCount = Cardinality(Live(coll, entry.room))
       /\ entry.lastMessageText \in {coll[id].message : id \in Live(coll, entry.room)}

C21_AnonymousSeesPublicOnly ==
  /\ \A e \in EnvironmentFilters, p \in PrivacyFilters :
       LET listed == listHandler(sessions, Anonymous, e, p).body IN
       \A s \in DOMAIN listed : ~listed[s].isPrivate /\ ~sessions[s].isPrivate
  /\ \A s \in SessionIds :
       LET out == fetchHandler(sessions, Anonymous, s) IN
       out.go => ~out.body.isPrivate /\ ~sessions[s].isPrivate

\* an active private session: an anonymous caller that asks the list for
\* private sessions gets none, and is denied the fetch
C21_Witness ==
  \E s \in DOMAIN sessions :
    /\ sessions[s].isActive /\ sessions[s].isPrivate
    /\ DOMAIN listHandler(sessions, Anonymous, "all", "true").body = {}
    /\ fetchHandler(sessions, Anonymous, s) = Rejected(403, "Access denied to private session")
    /\ s \in DOMAIN listHandler(sessions, sessions[s].host, "all", "true").body

\* ------------------------------------------------------------------ C22
\* the collection with the invite code of session s replaced
WithCode(s, code) == [sessions EXCEPT ![s].inviteCode = code]

\* C22: no list response carries an invite code, whoever asks; a fetch
\* answered to a caller who is not the session's host carries no invite
\* code and is the same whatever the code is, and is answered for a
\* private session to the host only; the join response has no invite
\* code in it.
C22_InviteCodeHostOnly ==
  /\ \A c \in Callers, e \in EnvironmentFilters, p \in PrivacyFilters :
       LET listed == listHandler(sessions, c, e, p).body IN
       \A s \in DOMAIN listed :
         /\ "inviteCode" \notin DOMAIN listed[s]
         /\ \A code \in Codes \cup {NoCode} :
              listHandler(WithCode(s, code), c, e, p) = listHandler(sessions, c, e, p)
  /\ \A c \in Callers, s \in DOMAIN sessions :
       LET out == fetchHandler(sessions, c, s) IN
       /\ out.go /\ ~IsHost(sessions[s], c) =>
            /\ out.body.inviteCode = NoCode
            /\ \A code \in Codes \cup {NoCode} :
                 fetchHandler(WithCode(s, code), c, s) = out
       /\ out.go /\ sessions[s].isPrivate => c = sessions[s].host
  /\ \A s \in DOMAIN sessions :
       LET resp == joinResponseBody(s, sessions[s]) IN
       /\ "inviteCode" \notin DOMAIN resp \cup DOMAIN resp.settings
       /\ \A code \in Codes \cup {NoCode} : joinResponseBody(s, WithCode(s, code)[s]) = resp

\* an active public session with an invite code and a member who joined
\* with it: the member and anonymous callers fetch it without the code,
\* the host with it
C22_Witness ==
  \E s \in DOMAIN sessions :
    /\ sessions[s].isActive /\ ~sessions[s].isPrivate
    /\ sessions[s].inviteCode # NoCode
    /\ \E u \in SeqToSet(sessions[s].currentUsers) :
         /\ u # sessions[s].host
         /\ fetchHandler(sessions, u, s).body.inviteCode = NoCode
    /\ fetchHandler(sessions, sessions[s].host, s).body.inviteCode = sessions[s].inviteCode

\* ------------------------------------------------------------------ C23
\* C23 as stated: whenever no session request is in flight, every user's
\* currentVRSession is null or names an active session whose member list
\* holds that user.
C23_CurrentSessionIsLive ==
  NoneInFlight =>
    \A u \in Users :
      LET s == users[u].currentVRSession IN
      s # Null =>
        /\ s \in DOMAIN sessions
        /\ sessions[s].isActive
        /\ u \in SeqToSet(sessions[s].currentUsers)

\* ------------------------------------------------------------------ C26
\* C26: an update_shared_object whose id is not in the room of the
\* caller's roster entry, and a create_shared_object or
\* update_shared_object of a caller whose roster entry has no room,
\* leave the roster, the room table with its object maps and the chat
\* logs as they are and emit nothing.
C26_MissingEntityNoOp ==
  [][\A k \in Connected :
       /\ \A id \in ObjectIds, updates \in UpdateSets :
            /\ UpdateSharedObject(k, id, updates)
            /\ \/ ~HasRoom(k)
               \/ HasSession(k) /\ id \notin DOMAIN Objects(CurrentRoom(k))
            => /\ UNCHANGED <<sockets, activeUsers, vrSessions, chatRooms>>
               /\ emitted' = <<>>
       /\ \A id \in ObjectIds \cup {NoId}, uuid \in UuidIds, data \in Descriptors :
            CreateSharedObject(k, id, uuid, data) /\ ~HasRoom(k)
            => /\ UNCHANGED <<sockets, activeUsers, vrSessions, chatRooms>>
               /\ emitted' = <<>>]_vars

\* a room that holds o1 and not o2, next to a connection without a room,
\* right after an event that emitted nothing; every connection has a
\* roster entry, so that event was a create or an update
C26_Witness ==
  /\ emitted = <<>>
  /\ \A j \in Connected : sockets[j].userId \in DOMAIN activeUsers
  /\ \E k, j \in Connected :
       /\ HasSession(k)
       /\ DOMAIN Objects(CurrentRoom(k)) = {"o1"}
       /\ ~HasRoom(j)

\* ------------------------------------------------------------------ C27
\* C27 as stated: after every step each live connection's user has a
\* roster entry; and when a connection disconnects while another
\* connection of the same user is live, the user's roster entry with its
\* current room stays as it was and the user stays in the member set of
\* that room.
C27_LiveConnectionKeepsEntry ==
  [][/\ \A j \in DOMAIN sockets' : sockets'[j].userId \in DOMAIN activeUsers'
     /\ \A k \in Connected :
          LET u == sockets[k].userId IN
          /\ Disconnect(k)
          /\ SocketsOf(u) \ {k} # {}
          /\ u \in DOMAIN activeUsers
          => /\ u \in DOMAIN activeUsers'
             /\ activeUsers'[u] = activeUsers[u]
             /\ \A r \in DOMAIN vrSessions :
                  u \in vrSessions[r].users =>
                    r \in DOMAIN vrSessions' /\ u \in vrSessions'[r].users]_vars

\* ------------------------------------------------------------------ C28
\* C28 as stated: a leave request for a session by a user who is not in
\* its member list changes nothing: no session and no user's
\* currentVRSession, the requester's included.
C28_NonMemberLeaveChangesNothing ==
  [][\A u \in Users, s \in PairIds :
       /\ Leave(u, s)
       /\ s \in DOMAIN sessions
       /\ u \notin SeqToSet(sessions[s].currentUsers)
       => UNCHANGED <<sessions, users>>]_vars

\* ------------------------------------------------------------------ C29
\* the connection's user is joined to the VR room `room`
JoinedTo(k, room) ==
  /\ HasRoom(k) /\ CurrentRoom(k) = room
  /\ room \in DOMAIN vrSessions /\ sockets[k].userId \in vrSessions[room].users

\* C29 as stated: a send_chat_message appends to the log of a room other
\* than the global one, and a get_chat_history hands out the messages of
\* such a room, only when the connection's user is joined to that room.
C29_RoomChatConfined ==
  [][\A k \in Connected, tag \in ChatTags \ {NoId, "global"} :
       /\ \A text \in ChatTexts :
            SendChatMessage(k, text, tag) /\ LogOf(tag)' # LogOf(tag) => JoinedTo(k, tag)
       /\ GetChatHistory(k, tag) /\ LogOf(tag) # <<>> => JoinedTo(k, tag)]_vars

\* ------------------------------------------------------------------ C30
\* C30 as stated: every active session has at most maxUsers members.
C30_ActiveWithinCapacity ==
  \A s \in DOMAIN sessions :
    sessions[s].isActive => Len(sessions[s].currentUsers) <= sessions[s].maxUsers

\* ------------------------------------------------------------------ C24
\* ids that no session and no message carries
UnknownSession == "s0"
UnknownMessage == Len(chatMessages) + 1

\* C24 as stated: what a non-host is answered by update, end and
\* invite-code on an active session differs from what the same request
\* is answered for an unknown session id; what a non-author is answered
\* by edit and delete of a message differs from the answer for an unknown
\* message id.
C24_DeniedDiffersFromNotFound ==
  /\ \A u \in Users, s \in DOMAIN sessions :
       FindActive(s) /\ sessions[s].host # u =>
         /\ updateHandler(u, s, <<>>) # updateHandler(u, UnknownSession, <<>>)
         /\ endHandler(u, s) # endHandler(u, UnknownSession)
         /\ \A c \in Codes :
              inviteCodeHandler(u, s, c) # inviteCodeHandler(u, UnknownSession, c)
  /\ \A u \in ChatUsers, id \in MessageIds :
       chatMessages[id].user # u =>
         /\ editHandler(u, id, "yo") # editHandler(u, UnknownMessage, "yo")
         /\ deleteHandler(u, id) # deleteHandler(u, UnknownMessage)

\* ------------------------------------------------------------------ C25
ConflictReasons == {AlreadyExists("username"), AlreadyExists("email")}

\* C25 as stated: no two users share a username or an email; a valid
\* registration, and a valid profile update, that would give a user a
\* username or an email another user holds is answered with a conflict
\* and its reason, and changes no user record.
C25_DuplicateIsConflict ==
  /\ \A i, j \in AccountIds :
       i # j => /\ accounts[i].username # accounts[j].username
                /\ accounts[i].email # accounts[j].email
  /\ \A username \in Usernames, email \in RawEmails :
       (\E j \in AccountIds : \/ accounts[j].username = username
                              \/ accounts[j].email = NormalizeEmail(email)) =>
         /\ registerHandler(username, email) \in ConflictReasons
         /\ ~ENABLED (Register(username, email) /\ accounts' # accounts)
  /\ \A id \in AccountIds, body \in ProfileInputs :
       /\ "username" \in DOMAIN body => body.username \in Usernames
       /\ \E j \in AccountIds \ {id} :
            \/ "username" \in DOMAIN body /\ accounts[j].username = body.username
            \/ "email" \in DOMAIN body /\ accounts[j].email = NormalizeEmail(body.email)
       => /\ profileHandler(id, body) \in ConflictReasons
          /\ ~ENABLED (UpdateProfile(id, body) /\ accounts' # accounts)

====
